---- MODULE Spec2Model ----
(***************************************************************************)
(* State-machine model of the transport core of nostr-commerce-framework:  *)
(*   - MessageQueue   (src/src/core/queue.ts)                              *)
(*   - ConnectionPool (src/src/core/connection.ts)                         *)
(*   - NostrWalletConnect, the socket client (src/dist/nwc/index.d.ts)     *)
(*   - NostrWalletConnect, the client with auto-reconnect                  *)
(*     (src/unnamed/part_027)                                              *)
(*   - NostrWalletConnect, the client that waits for events                *)
(*     (src/src/nwc/index.ts)                                              *)
(*   - NostrCommerce, its subscriptions (src/src/core/NostrCommerce.ts)    *)
(* JavaScript runs one callback at a time, so every action below is the    *)
(* code that runs between two suspension points (await) of the source.     *)
(***************************************************************************)
EXTENDS Integers, Sequences, FiniteSets, TLC

(***************************************************************************)
(* Configuration values (QueueConfig) and model bounds                     *)
(***************************************************************************)
\* QueueConfig.maxSize, instantiated small
MaxSize == 2
\* QueueConfig.retryAttempts
RetryAttempts == 2
\* number of messages ever accepted by enqueue in one behaviour
MaxMsgs == 3
\* number of clear() calls in one behaviour
MaxClears == 1
\* A drain loop starts only while processing is false; with a loop suspended
\* that takes a clear(), so at most MaxClears + 1 activations are alive at once.
MaxLoops == MaxClears + 1

\* message types the application enqueues, and those it registers a handler for
Types == {"test", "other"}
HandledTypes == {"test"}
Priorities == {1, 2, 3}
HandlerError == "Processing failed"
TimeoutError == "Processing timeout"
NoError == "none"

(***************************************************************************)
(* Configuration values (ConnectionPoolConfig) and model bounds            *)
(***************************************************************************)
\* ConnectionPoolConfig.maxConnections, instantiated small
MaxConnections == 2
\* ConnectionPoolConfig.maxRetries, instantiated small
MaxRetries == 2
\* number of SimplePool objects created in one behaviour
MaxConnObjs == 3
\* number of connectToRelay activations (callers of getPool that wait, runs
\* of the monitor) that may be suspended at the same time
MaxTasks == 2

\* relay URLs: one more than the ceiling admits
Relays == 1..(MaxConnections + 1)
TaskIds == 1..MaxTasks
\* how `await Promise.race([connectPromise, timeoutPromise])` may end
ConnectOutcomes == {"ok", "ensureRelay failed", "RELAY_TIMEOUT"}
\* absent key of a Map<string, number>
NoEntry == -1

VARIABLES
  \* ---- ConnectionPool ----
  pools,            \* this.pools: relay -> identity of its SimplePool, 0 if absent
  connectionStatus, \* this.connectionStatus: relay -> "up" (true), "down" (false), "none"
  retryAttempts,    \* this.retryAttempts: relay -> counter, NoEntry if absent
  nextConn,         \* identity of the next SimplePool object to be created
  tasks,            \* suspended activations of connectToRelay and their awaiting callers
  everClosed,       \* close() has been called
  ensureCalls,      \* relay -> calls of pool.ensureRelay(relay) since its retry
                    \* counter was last set to 0 or deleted
  known,            \* number of distinct relay URLs getPool has been called with
  plast,            \* the call or callback of the pool that produced the current state
  \* ---- MessageQueue ----
  queue,          \* this.queue: sequence of references to QueuedMessage objects
  msgs,           \* the QueuedMessage objects ever created, indexed by identity
  processing,     \* this.processing
  handlers,       \* keys of this.handlers
  loops,          \* suspended activations of processQueue()
  handlerLog,     \* identities of the messages handed to a handler, in call order
  processedCount, \* number of 'messageProcessed' emissions per message id
  failedCount,    \* number of 'messageFailed' emissions per message id
  cleared,        \* messages that were buffered when clear() ran
  clears,         \* number of clear() calls so far
  lastOp          \* the call or callback that produced the current state

qvars == <<queue, msgs, processing, handlers, loops, handlerLog,
           processedCount, failedCount, cleared, clears>>

\* the pool's state and the activations working on it
pstate == <<pools, connectionStatus, retryAttempts, nextConn, tasks, everClosed,
            ensureCalls>>

pvars == <<pstate, known>>

VARIABLES
  \* ---- the cache of ConnectionPool (this.cache, an LRU of lru-cache) ----
  cache,    \* key -> [val, start]: value and start of its age; val 0 if absent
  recency,  \* the keys held, least recently used first
  now,      \* the clock the cache reads (performance.now(), in units of time)
  setAt,    \* key -> time of the setCache call that stored the entry, NoEntry
            \* once the entry was invalidated, cleared or evicted for capacity
  clast     \* the cache call that produced the current state

cvars == <<cache, recency, now, setAt, clast>>

VARIABLES
  \* ---- NostrWalletConnect (src/dist/nwc) ----
  connected,        \* this.connected
  ws,               \* this.ws: "null", or the readyState of the socket
  pendingRequests,  \* this.pendingRequests: event id -> the call it settles, 0 if absent
  calls,            \* the calls of sendRequest that passed its first check
  sockets,          \* number of sockets created by connect()
  nlast             \* the call or callback that produced the current state

nstate == <<connected, ws, pendingRequests, calls, sockets>>

nvars == <<nstate, nlast>>

VARIABLES
  \* ---- NostrWalletConnect with auto-reconnect (src/unnamed/part_027) ----
  wConnected,        \* this.connected
  capabilities,      \* this.capabilities: "undefined", or what the wallet granted
  reconnectAttempts, \* this.reconnectAttempts
  pendingPayments,   \* this.pendingPayments: payment id -> the call it resolves, 0 if absent
  payments,          \* the calls of payInvoice that passed its two checks
  connects,          \* the activations of connect() and of handleDisconnect()
  onceConnected,     \* a once('connected') listener of connect() is registered
  errorListener,     \* the application has registered a listener for 'error'
  subscribed,        \* subscribeToResponses() has run
  autoAttempts,      \* automatic connect attempts since the last explicit
                     \* connect() or successful automatic attempt (history)
  overlapped,        \* an automatic reconnect was started, or connect() was
                     \* called, while an automatic reconnect was under way (history)
  wlast              \* the call or callback that produced the current state

wstate == <<wConnected, capabilities, reconnectAttempts, pendingPayments,
            payments, connects, onceConnected, errorListener, subscribed>>

whist == <<autoAttempts, overlapped>>

wvars == <<wstate, whist, wlast>>

VARIABLES
  \* ---- NostrWalletConnect (src/dist/nwc): its construction ----
  descriptor,        \* what the connection string was made of: prefix or
                     \* not, the pubkey, '?' or not, the parameters
  client,            \* the result of the constructor: not yet called, the
                     \* three fields it has set, or the error it has thrown
  details            \* what getConnectionDetails() returned last

dvars == <<descriptor, client, details>>

VARIABLES
  \* ---- NostrWalletConnect (src/src/nwc/index.ts) ----
  sConnected,        \* this.connected
  sCalls,            \* the calls of connect() and payInvoice(): where each
                     \* stands, its timer and its once(...) listener
  slast              \* the call or callback that produced the current state

svars == <<sConnected, sCalls, slast>>

VARIABLES
  \* ---- NostrCommerce (src/src/core/NostrCommerce.ts) ----
  relayPools,        \* keys of this.pools: the relays start() has connected
  eventHandlers,     \* keys of this.eventHandlers: subscription ids
  relaySubs,         \* the relay subscriptions made by pool.sub() and not
                     \* ended by unsub(): pairs <<subscription id, relay>>
  cancels,           \* subscription ids whose cancel function was returned
  subscribes,        \* number of subscribe() calls so far
  klast              \* the call that produced the current state

kvars == <<relayPools, eventHandlers, relaySubs, cancels, subscribes, klast>>

vars == <<qvars, lastOp, pvars, plast, cvars, nvars, wvars, dvars, svars, kvars>>

\* a step of one component leaves the other components alone
PoolUntouched == UNCHANGED <<pvars, plast>>
QueueUntouched == UNCHANGED <<qvars, lastOp>>
CacheUntouched == UNCHANGED cvars
NwcUntouched == UNCHANGED nvars
WalletUntouched == UNCHANGED wvars
ParseUntouched == UNCHANGED dvars
ClientUntouched == UNCHANGED svars
CommerceUntouched == UNCHANGED kvars
OthersUntouched == ClientUntouched /\ CommerceUntouched
OnlyQueue ==
  /\ PoolUntouched /\ CacheUntouched /\ NwcUntouched /\ WalletUntouched /\ ParseUntouched
  /\ OthersUntouched
OnlyPool ==
  /\ QueueUntouched /\ CacheUntouched /\ NwcUntouched /\ WalletUntouched /\ ParseUntouched
  /\ OthersUntouched
OnlyCache ==
  /\ QueueUntouched /\ PoolUntouched /\ NwcUntouched /\ WalletUntouched /\ ParseUntouched
  /\ OthersUntouched
OnlyNwc ==
  /\ QueueUntouched /\ PoolUntouched /\ CacheUntouched /\ WalletUntouched /\ ParseUntouched
  /\ OthersUntouched
OnlyWallet ==
  /\ QueueUntouched /\ PoolUntouched /\ CacheUntouched /\ NwcUntouched /\ ParseUntouched
  /\ OthersUntouched
OnlyParse ==
  /\ QueueUntouched /\ PoolUntouched /\ CacheUntouched /\ NwcUntouched /\ WalletUntouched
  /\ OthersUntouched
OnlyClient ==
  /\ QueueUntouched /\ PoolUntouched /\ CacheUntouched /\ NwcUntouched /\ WalletUntouched
  /\ ParseUntouched /\ CommerceUntouched
OnlyCommerce ==
  /\ QueueUntouched /\ PoolUntouched /\ CacheUntouched /\ NwcUntouched /\ WalletUntouched
  /\ ParseUntouched /\ ClientUntouched

MsgIds == 1..MaxMsgs
LoopIds == 1..MaxLoops

IdleLoop == [pc |-> "idle", msg |-> 0, stale |-> FALSE]

\* op: the call or callback; id: the message it is about; arg: its argument
\* (the type given to enqueue, "stale" for a handler that was in flight at a
\* clear()); res: how it ended; emit: the notification it emitted
Op(op, id, arg, res, emit) ==
  [op |-> op, id |-> id, arg |-> arg, res |-> res, emit |-> emit]

(***************************************************************************)
(* Helpers on sequences                                                    *)
(***************************************************************************)
\* Array.prototype.shift(): removes the first element, no-op on an empty array
Shift(q) == IF q = <<>> THEN q ELSE Tail(q)

RECURSIVE InsertSorted(_, _, _)
\* insert x behind every element whose priority is not lower (stable, descending);
\* m holds the message objects
InsertSorted(x, s, m) ==
  IF s = <<>> THEN <<x>>
  ELSE IF m[Head(s)].priority >= m[x].priority
       THEN <<Head(s)>> \o InsertSorted(x, Tail(s), m)
       ELSE <<x>> \o s

RECURSIVE SortByPriority(_, _)
\* this.queue.sort((a, b) => b.priority - a.priority): stable, descending
SortByPriority(q, m) ==
  IF q = <<>> THEN q
  ELSE InsertSorted(q[Len(q)], SortByPriority(SubSeq(q, 1, Len(q) - 1), m), m)

Count(s, x) == Cardinality({i \in 1..Len(s) : s[i] = x})
InQueue(x) == \E i \in 1..Len(queue) : queue[i] = x
ActiveLoops == {i \in LoopIds : loops[i].pc # "idle"}
FreeLoop == CHOOSE i \in LoopIds : loops[i].pc = "idle" /\ \A j \in LoopIds : loops[j].pc = "idle" => i <= j

(***************************************************************************)
(* MessageQueue                                                            *)
(***************************************************************************)
QInit ==
  /\ queue = <<>>
  /\ msgs = <<>>
  /\ processing = FALSE
  /\ handlers = {}
  /\ loops = [i \in LoopIds |-> IdleLoop]
  /\ handlerLog = <<>>
  /\ processedCount = [i \in MsgIds |-> 0]
  /\ failedCount = [i \in MsgIds |-> 0]
  /\ cleared = {}
  /\ clears = 0
  /\ lastOp = Op("init", 0, "", "", "")

\* registerHandler(type, handler)
RegisterHandler(type) ==
  /\ OnlyQueue
  /\ handlers' = handlers \cup {type}
  /\ lastOp' = Op("registerHandler", 0, type, "ok", "")
  /\ UNCHANGED <<queue, msgs, processing, loops, handlerLog, processedCount,
                 failedCount, cleared, clears>>

RECURSIVE DropUnhandled(_, _)
\* head of the while loop: messages whose type has no handler are shifted away;
\* m holds the message objects
DropUnhandled(q, m) ==
  IF q = <<>> THEN q
  ELSE IF m[Head(q)].type \in handlers THEN q
       ELSE DropUnhandled(Tail(q), m)

\* The while loop of processQueue() from its head, for activation i, with the
\* array holding q: either the loop ends (finally: processing = false) or the
\* handler of the head message is called and the activation suspends on it.
Drain(i, q, m, proc) ==
  LET q2 == DropUnhandled(q, m) IN
  /\ queue' = q2
  /\ IF q2 = <<>>
       THEN /\ processing' = FALSE
            /\ loops' = [loops EXCEPT ![i] = IdleLoop]
            /\ handlerLog' = handlerLog
       ELSE /\ processing' = proc
            /\ loops' = [loops EXCEPT ![i] =
                           [pc |-> "handler", msg |-> Head(q2), stale |-> FALSE]]
            /\ handlerLog' = Append(handlerLog, Head(q2))

\* first guard of enqueue
NoHandlerFor(type) == type \notin handlers

\* (mutation of QueueIsFull: off by one)
QueueIsFullOffByOne(q) == Len(q) > MaxSize

\* second guard of enqueue
QueueIsFull(q) == Len(q) >= MaxSize

\* (mutation of EnqueueResult: capacity checked before the handler lookup)
EnqueueResultCapacityFirst(type, q) ==
  IF QueueIsFull(q) THEN "QueueFull"
  ELSE IF NoHandlerFor(type) THEN "InvalidMessageType"
  ELSE "ok"

\* the two guards of enqueue, in the order of the code
EnqueueResult(type, q) ==
  IF NoHandlerFor(type) THEN "InvalidMessageType"
  ELSE IF QueueIsFull(q) THEN "QueueFull"
  ELSE "ok"

\* enqueue(type, data, priority)
Enqueue(type, priority) ==
  LET res == EnqueueResult(type, queue)
      id == Len(msgs) + 1
  IN
  /\ OnlyQueue
  /\ IF res # "ok"
    THEN /\ lastOp' = Op("enqueue", 0, type, res, "")
         /\ UNCHANGED qvars
    ELSE /\ id <= MaxMsgs
         /\ LET m == Append(msgs, [type |-> type, priority |-> priority,
                                    attempts |-> 0])
                q == SortByPriority(Append(queue, id), m)
            IN /\ msgs' = m
               /\ IF processing
                    THEN /\ queue' = q
                         /\ UNCHANGED <<processing, loops, handlerLog>>
                    ELSE Drain(FreeLoop, q, m, TRUE)
         /\ lastOp' = Op("enqueue", id, type, "ok", "")
         /\ UNCHANGED <<handlers, processedCount, failedCount, cleared, clears>>

\* the catch block of processQueue(): what happens to the array when the
\* attempt on message x failed and x has retries left
Requeue(q, x) == Append(Shift(q), x)

\* Continuation of processQueue() after `await Promise.race([...])` for
\* activation i; outcome is "ok" when the handler's promise fulfilled first,
\* HandlerError when it rejected first, TimeoutError when the timer won.
HandlerDone(i, outcome) ==
  LET x == loops[i].msg
      how == IF loops[i].stale THEN "stale" ELSE "live"
  IN
  /\ loops[i].pc = "handler"
  /\ OnlyQueue
  /\ UNCHANGED <<handlers, cleared, clears>>
  /\ IF outcome = "ok"
       THEN /\ processedCount' = [processedCount EXCEPT ![x] = @ + 1]
            /\ lastOp' = Op("handlerDone", x, how, outcome, "messageProcessed")
            /\ UNCHANGED <<msgs, failedCount>>
            /\ Drain(i, Shift(queue), msgs, processing)
       ELSE LET m == [msgs EXCEPT ![x].attempts = @ + 1] IN
            /\ msgs' = m
            /\ UNCHANGED processedCount
            /\ IF m[x].attempts >= RetryAttempts
                 THEN /\ failedCount' = [failedCount EXCEPT ![x] = @ + 1]
                      /\ lastOp' = Op("handlerDone", x, how, outcome, "messageFailed")
                      /\ Drain(i, Shift(queue), m, processing)
                 ELSE /\ queue' = Requeue(queue, x)
                      /\ loops' = [loops EXCEPT ![i] =
                                     [pc |-> "delay", msg |-> 0, stale |-> FALSE]]
                      /\ lastOp' = Op("handlerDone", x, how, outcome, "")
                      /\ UNCHANGED <<processing, handlerLog, failedCount>>

\* the retryDelay timer of activation i fires: the while loop goes on
DelayDone(i) ==
  /\ loops[i].pc = "delay"
  /\ OnlyQueue
  /\ lastOp' = Op("delayDone", 0, "", "", "")
  /\ Drain(i, queue, msgs, processing)
  /\ UNCHANGED <<msgs, handlers, processedCount, failedCount, cleared, clears>>

\* clear(); handler invocations in flight are marked, they go on running
Clear ==
  /\ clears < MaxClears
  /\ OnlyQueue
  /\ clears' = clears + 1
  /\ queue' = <<>>
  /\ processing' = FALSE
  /\ cleared' = cleared \cup {queue[k] : k \in 1..Len(queue)}
  /\ loops' = [i \in LoopIds |->
                 IF loops[i].pc = "handler" THEN [loops[i] EXCEPT !.stale = TRUE]
                 ELSE loops[i]]
  /\ lastOp' = Op("clear", 0, "", "", "")
  /\ UNCHANGED <<msgs, handlers, handlerLog, processedCount, failedCount>>

\* QueuedMessage.timestamp of message x: Date.now() read by the enqueue that
\* created it. Messages are numbered in the order of their creation and the
\* clock has advanced between two enqueues, so a later message has a later
\* timestamp.
Timestamp(x) == x
\* the value of `this.queue[0]?.timestamp` on an empty array
Undefined == 0

\* getStatus()
GetStatus ==
  [size |-> Len(queue),
   processing |-> processing,
   oldestMessage |-> IF queue = <<>> THEN Undefined ELSE Timestamp(queue[1])]

QNext ==
  \/ \E t \in HandledTypes : RegisterHandler(t)
  \/ \E t \in Types, p \in Priorities : Enqueue(t, p)
  \/ \E i \in LoopIds, o \in {"ok", HandlerError, TimeoutError} : HandlerDone(i, o)
  \/ \E i \in LoopIds : DelayDone(i)
  \/ Clear

\* the queue with handlers that never reject: an attempt succeeds or runs
\* into the processing timeout
QNextTimeouts ==
  \/ \E t \in HandledTypes : RegisterHandler(t)
  \/ \E t \in Types, p \in Priorities : Enqueue(t, p)
  \/ \E i \in LoopIds, o \in {"ok", TimeoutError} : HandlerDone(i, o)
  \/ \E i \in LoopIds : DelayDone(i)
  \/ Clear

(***************************************************************************)
(* ConnectionPool                                                          *)
(***************************************************************************)
IdleTask == [pc |-> "idle", who |-> "", relay |-> 0, conn |-> 0, attempts |-> 0,
             err |-> ""]

POp(op, relay, res, conn) == [op |-> op, relay |-> relay, res |-> res, conn |-> conn]

PInit ==
  /\ pools = [e \in Relays |-> 0]
  /\ connectionStatus = [e \in Relays |-> "none"]
  /\ retryAttempts = [e \in Relays |-> NoEntry]
  /\ nextConn = 1
  /\ tasks = [t \in TaskIds |-> IdleTask]
  /\ everClosed = FALSE
  /\ ensureCalls = [e \in Relays |-> 0]
  /\ known = 0
  /\ plast = POp("init", 0, "", 0)

\* this.pools.size
PoolSize(p) == Cardinality({e \in Relays : p[e] # 0})

\* (mutation of AtCeiling: off by one)
AtCeilingOffByOne(p) == PoolSize(p) > MaxConnections

\* the ceiling test of getPool
AtCeiling(p) == PoolSize(p) >= MaxConnections

\* this.retryAttempts.get(relay) || 0
RetryOf(e) == IF retryAttempts[e] = NoEntry THEN 0 ELSE retryAttempts[e]

\* !this.connectionStatus.get(relay)
NotConnected(e) == connectionStatus[e] # "up"

FreeTasks == {t \in TaskIds : tasks[t].pc = "idle"}
FreeTask == CHOOSE t \in FreeTasks : \A u \in FreeTasks : t <= u

\* a promise reaction (the continuation of an await on a settled promise) is
\* queued: timers and socket events run only after it
PendingMicrotask == \E t \in TaskIds : tasks[t].pc \in {"done_ok", "done_err"}

\* connectToRelay(relay, pool) up to its first await, called by `who` in
\* activation t: it throws at once when the retry budget is used up,
\* otherwise it calls pool.ensureRelay(relay) and waits for the race.
StartConnect(t, who, e, c) ==
  LET attempts == RetryOf(e) IN
  IF attempts >= MaxRetries
    THEN [pc |-> "done_err", who |-> who, relay |-> e, conn |-> c,
          attempts |-> attempts, err |-> "RELAY_CONNECTION_FAILED"]
    ELSE [pc |-> "connecting", who |-> who, relay |-> e, conn |-> c,
          attempts |-> attempts, err |-> ""]

\* the call counter of ensureRelay after connectToRelay(e, pool) has run up to
\* its first await: the call is made unless the retry budget is used up
EnsureCalled(e) ==
  IF RetryOf(e) >= MaxRetries THEN ensureCalls
  ELSE [ensureCalls EXCEPT ![e] = @ + 1]

\* getPool(relay) up to its first await. Relay URLs are interchangeable: the
\* k-th distinct URL the application ever passes is named k.
GetPool(e) ==
  /\ OnlyPool
  /\ e <= known + 1
  /\ known' = IF e > known THEN e ELSE known
  /\ IF pools[e] # 0
    THEN /\ plast' = POp("getPool", e, "returned", pools[e])
         /\ UNCHANGED pstate
    ELSE IF AtCeiling(pools)
      THEN /\ plast' = POp("getPool", e, "CONNECTION_LIMIT_EXCEEDED", 0)
           /\ UNCHANGED pstate
      ELSE /\ nextConn <= MaxConnObjs
           /\ FreeTasks # {}
           /\ pools' = [pools EXCEPT ![e] = nextConn]
           /\ nextConn' = nextConn + 1
           /\ tasks' = [tasks EXCEPT ![FreeTask] = StartConnect(FreeTask, "getPool", e, nextConn)]
           /\ ensureCalls' = EnsureCalled(e)
           /\ plast' = POp("getPool", e, "waiting", nextConn)
           /\ UNCHANGED <<connectionStatus, retryAttempts, everClosed>>

\* connectToRelay after `await Promise.race([...])`, activation t
Settle(t, outcome) ==
  LET e == tasks[t].relay IN
  /\ tasks[t].pc = "connecting"
  /\ ~PendingMicrotask
  /\ OnlyPool
  /\ IF outcome = "ok"
       THEN /\ connectionStatus' = [connectionStatus EXCEPT ![e] = "up"]
            /\ retryAttempts' = [retryAttempts EXCEPT ![e] = 0]
            /\ ensureCalls' = [ensureCalls EXCEPT ![e] = 0]
            /\ tasks' = [tasks EXCEPT ![t].pc = "done_ok"]
       ELSE /\ connectionStatus' = [connectionStatus EXCEPT ![e] = "down"]
            /\ retryAttempts' = [retryAttempts EXCEPT ![e] = tasks[t].attempts + 1]
            /\ UNCHANGED ensureCalls
            /\ tasks' = [tasks EXCEPT ![t].pc = "done_err", ![t].err = outcome]
  /\ plast' = POp("settle", e, outcome, tasks[t].conn)
  /\ UNCHANGED <<pools, nextConn, everClosed, known>>

\* The for loop of monitorConnections() from the entry behind the one whose
\* SimplePool is `last` (a Map iterates in insertion order, and getPool
\* inserts SimplePool objects in order of creation): entries marked connected
\* are passed over, the first other one is connected to and awaited.
MonitorAdvance(t, last) ==
  LET todo == {e \in Relays : pools[e] > last /\ NotConnected(e)} IN
  IF todo = {}
    THEN /\ tasks' = [tasks EXCEPT ![t] = IdleTask]
         /\ UNCHANGED ensureCalls
    ELSE LET e == CHOOSE x \in todo : \A y \in todo : pools[x] <= pools[y] IN
         /\ tasks' = [tasks EXCEPT ![t] = StartConnect(t, "monitor", e, pools[e])]
         /\ ensureCalls' = EnsureCalled(e)

\* the setInterval callback: monitorConnections() up to its first await
MonitorTick ==
  /\ ~PendingMicrotask
  /\ OnlyPool
  /\ FreeTasks # {}
  /\ MonitorAdvance(FreeTask, 0)
  /\ plast' = POp("monitorTick", 0, "", 0)
  /\ UNCHANGED <<pools, connectionStatus, retryAttempts, nextConn, everClosed, known>>

\* the caller of connectToRelay goes on after its await: getPool returns the
\* pool or deletes the entry and rethrows; the monitor logs and iterates on
Resume(t) ==
  LET e == tasks[t].relay IN
  /\ tasks[t].pc \in {"done_ok", "done_err"}
  /\ OnlyPool
  /\ UNCHANGED <<connectionStatus, retryAttempts, nextConn, everClosed, known>>
  /\ IF tasks[t].who = "getPool"
       THEN /\ tasks' = [tasks EXCEPT ![t] = IdleTask]
            /\ UNCHANGED ensureCalls
            /\ IF tasks[t].pc = "done_ok"
                 THEN /\ plast' = POp("getPoolDone", e, "returned", tasks[t].conn)
                      /\ UNCHANGED pools
                 ELSE /\ pools' = [pools EXCEPT ![e] = 0]
                      /\ plast' = POp("getPoolDone", e, tasks[t].err, 0)
       ELSE /\ MonitorAdvance(t, tasks[t].conn)
            /\ plast' = POp("monitorResume", e, tasks[t].pc, tasks[t].conn)
            /\ UNCHANGED pools

\* close(): every entry of this.pools is closed and deleted with its status
\* and its counter
Close ==
  /\ OnlyPool
  /\ pools' = [e \in Relays |-> 0]
  /\ connectionStatus' = [e \in Relays |-> IF pools[e] # 0 THEN "none" ELSE connectionStatus[e]]
  /\ retryAttempts' = [e \in Relays |-> IF pools[e] # 0 THEN NoEntry ELSE retryAttempts[e]]
  /\ ensureCalls' = [e \in Relays |-> IF pools[e] # 0 THEN 0 ELSE ensureCalls[e]]
  /\ everClosed' = TRUE
  /\ plast' = POp("close", 0, "", 0)
  /\ UNCHANGED <<nextConn, tasks, known>>

PNext ==
  \/ \E e \in Relays : GetPool(e)
  \/ \E t \in TaskIds, o \in ConnectOutcomes : Settle(t, o)
  \/ \E t \in TaskIds : Resume(t)
  \/ MonitorTick
  \/ Close

(***************************************************************************)
(* The cache of ConnectionPool: new LRU({max, ttl, updateAgeOnGet: true,   *)
(* updateAgeOnHas: true}) and the five methods that forward to it          *)
(***************************************************************************)
\* cacheConfig.maxSize, instantiated small
CacheMax == 2
\* cacheConfig.ttl, in units of time
CacheTtl == 2
\* the clock stops here
MaxTime == 5
Keys == 1..(CacheMax + 1)
Values == {1, 2}

Absent == [val |-> 0, start |-> 0]
COp(op, key, res) == [op |-> op, key |-> key, res |-> res]

CInit ==
  /\ cache = [k \in Keys |-> Absent]
  /\ recency = <<>>
  /\ now = 1
  /\ setAt = [k \in Keys |-> NoEntry]
  /\ clast = COp("init", 0, 0)

Held(k) == cache[k].val # 0

\* an entry is stale once its age exceeds the ttl
IsStale(k) == Held(k) /\ now - cache[k].start > CacheTtl

Without(r, k) == SelectSeq(r, LAMBDA x : x # k)
MostRecent(r, k) == Append(Without(r, k), k)

\* updateAgeOnGet: true -- a read that hits restarts the age of the entry
AgeOnGet(k) == now

\* updateAgeOnHas: true -- a has() that hits restarts the age of the entry
AgeOnHas(k) == now

\* setCache(key, value): an entry that is held is overwritten; otherwise, at
\* max entries, the least recently used one is evicted first
SetCache(k, v) ==
  LET full == ~Held(k) /\ Len(recency) >= CacheMax
      ev == IF full THEN Head(recency) ELSE 0
  IN
  /\ OnlyCache
  /\ cache' = [x \in Keys |-> IF x = k THEN [val |-> v, start |-> now]
                              ELSE IF x = ev THEN Absent ELSE cache[x]]
  /\ recency' = MostRecent(IF full THEN Tail(recency) ELSE recency, k)
  /\ setAt' = [x \in Keys |-> IF x = k THEN now
                              ELSE IF x = ev THEN NoEntry ELSE setAt[x]]
  /\ clast' = COp("setCache", k, v)
  /\ UNCHANGED now

\* getCache(key): a stale entry is deleted and the call misses; a fresh one
\* becomes the most recently used, its age restarts, its value is returned
GetCache(k) ==
  /\ OnlyCache
  /\ UNCHANGED <<now, setAt>>
  /\ IF ~Held(k)
       THEN /\ clast' = COp("getCache", k, 0)
            /\ UNCHANGED <<cache, recency>>
       ELSE IF IsStale(k)
         THEN /\ cache' = [cache EXCEPT ![k] = Absent]
              /\ recency' = Without(recency, k)
              /\ clast' = COp("getCache", k, 0)
         ELSE /\ cache' = [cache EXCEPT ![k].start = AgeOnGet(k)]
              /\ recency' = MostRecent(recency, k)
              /\ clast' = COp("getCache", k, cache[k].val)

\* hasCache(key): 1 (true) for a fresh entry, whose age restarts; 0 (false)
\* for a stale or absent one, which is left as it is
HasCache(k) ==
  /\ OnlyCache
  /\ UNCHANGED <<now, setAt, recency>>
  /\ IF Held(k) /\ ~IsStale(k)
       THEN /\ cache' = [cache EXCEPT ![k].start = AgeOnHas(k)]
            /\ clast' = COp("hasCache", k, 1)
       ELSE /\ clast' = COp("hasCache", k, 0)
            /\ UNCHANGED cache

\* invalidateCache(key)
InvalidateCache(k) ==
  /\ OnlyCache
  /\ cache' = [cache EXCEPT ![k] = Absent]
  /\ recency' = Without(recency, k)
  /\ setAt' = [setAt EXCEPT ![k] = NoEntry]
  /\ clast' = COp("invalidateCache", k, 0)
  /\ UNCHANGED now

\* clearCache()
ClearCache ==
  /\ OnlyCache
  /\ cache' = [k \in Keys |-> Absent]
  /\ recency' = <<>>
  /\ setAt' = [k \in Keys |-> NoEntry]
  /\ clast' = COp("clearCache", 0, 0)
  /\ UNCHANGED now

\* one unit of time passes
Tick ==
  /\ now < MaxTime
  /\ OnlyCache
  /\ now' = now + 1
  /\ clast' = COp("tick", 0, 0)
  /\ UNCHANGED <<cache, recency, setAt>>

CNext ==
  \/ \E k \in Keys, v \in Values : SetCache(k, v)
  \/ \E k \in Keys : GetCache(k)
  \/ \E k \in Keys : HasCache(k)
  \/ \E k \in Keys : InvalidateCache(k)
  \/ ClearCache
  \/ Tick

(***************************************************************************)
(* NostrWalletConnect (src/dist/nwc/index.d.ts)                            *)
(***************************************************************************)
\* number of sendRequest calls that get past the readyState check
MaxCalls == 3
\* number of response events the wallet delivers for one request
MaxDeliveries == 2
\* number of connect() calls
MaxSockets == 1

\* createEvent leaves the id of every event as the empty string
EmptyId == 0
EventIds == {EmptyId}
ApiMethods == {"pay_invoice", "get_balance", "make_invoice", "list_transactions"}
RequestTimeout == "Request timeout"
WalletError == "wallet error"

NOp(op, call, to, res) == [op |-> op, call |-> call, to |-> to, res |-> res]

NInit ==
  /\ connected = FALSE
  /\ ws = "null"
  /\ pendingRequests = [i \in EventIds |-> 0]
  /\ calls = <<>>
  /\ sockets = 0
  /\ nlast = NOp("init", 0, 0, "")

CallIds == 1..Len(calls)

\* the event id createEvent gives to the request of call c
CreateEventId(c) == EmptyId

\* a call of sendRequest is suspended on `await this.createEvent(...)`: its
\* continuation runs before any timer or socket event
Creating == \E c \in CallIds : calls[c].pc = "creating"

\* pc: the state of the promise sendRequest returns; hash: the request whose
\* response resolved it; timer: the state of its setTimeout; sock: the socket
\* the request goes out on
NewCall(method) ==
  [method |-> method, pc |-> "creating", timer |-> "none", hash |-> 0,
   err |-> "", sent |-> FALSE, settles |-> 0, deliveries |-> 0,
   sock |-> sockets]

\* pending.resolve(result): settles the promise unless it is settled
ResolveCall(cs, c, h) ==
  IF cs[c].pc = "pending"
    THEN [cs EXCEPT ![c].pc = "resolved", ![c].hash = h, ![c].settles = @ + 1]
    ELSE cs

\* reject(error): settles the promise unless it is settled
RejectCall(cs, c, e) ==
  IF cs[c].pc = "pending"
    THEN [cs EXCEPT ![c].pc = "rejected", ![c].err = e, ![c].settles = @ + 1]
    ELSE cs

\* sendRequest(method, params) up to `await this.createEvent(...)`
SendRequest(op, method) ==
  IF ws # "open"
    THEN /\ nlast' = NOp(op, 0, 0, "WebSocket not connected")
         /\ UNCHANGED calls
    ELSE /\ Len(calls) < MaxCalls
         /\ calls' = Append(calls, NewCall(method))
         /\ nlast' = NOp(op, Len(calls) + 1, 0, "creating")

\* (mutation of ApiCall: the connected flag is not looked at)
ApiCallUnguarded(method) ==
  /\ OnlyNwc
  /\ UNCHANGED <<connected, ws, pendingRequests, sockets>>
  /\ SendRequest(method, method)

\* payInvoice, getBalance, makeInvoice, listTransactions up to their await
ApiCall(method) ==
  /\ OnlyNwc
  /\ UNCHANGED <<connected, ws, pendingRequests, sockets>>
  /\ IF ~connected
       THEN /\ nlast' = NOp(method, 0, 0, "Not connected")
            /\ UNCHANGED calls
       ELSE SendRequest(method, method)

\* the promise executor of sendRequest for call c: the timer is armed, the
\* pending request is stored under the id of the event, the event is sent;
\* suspended calls go on in the order in which they were made
Register(c) ==
  /\ c \in CallIds
  /\ calls[c].pc = "creating"
  /\ \A d \in CallIds : calls[d].pc = "creating" => c <= d
  /\ OnlyNwc
  /\ calls' = [calls EXCEPT ![c].pc = "pending", ![c].timer = "armed",
                            ![c].sent = (ws = "open")]
  /\ pendingRequests' = [pendingRequests EXCEPT ![CreateEventId(c)] = c]
  /\ nlast' = NOp("register", c, 0, "")
  /\ UNCHANGED <<connected, ws, sockets>>

\* connect(): a socket is created and its handlers are installed
Connect ==
  /\ ws \in {"null", "closed"}
  /\ sockets < MaxSockets
  /\ OnlyNwc
  /\ ws' = "connecting"
  /\ sockets' = sockets + 1
  /\ nlast' = NOp("connect", 0, 0, "")
  /\ UNCHANGED <<connected, pendingRequests, calls>>

\* ws.on('open'): getInfo() sends the get_info request
WsOpen ==
  /\ ws = "connecting"
  /\ ~Creating
  /\ Len(calls) < MaxCalls
  /\ OnlyNwc
  /\ ws' = "open"
  /\ calls' = Append(calls, NewCall("get_info"))
  /\ nlast' = NOp("open", Len(calls) + 1, 0, "creating")
  /\ UNCHANGED <<connected, pendingRequests, sockets>>

\* what the wallet puts into the content of an event: a result, an error, or
\* text that is no JSON
Contents == {"result", "error", "malformed"}

\* (mutation of ContentParses: JSON.parse accepts any text)
ContentParsesAnything(kind) == kind \in Contents

\* JSON.parse(event.content) returns, rather than throws
ContentParses(kind) == kind # "malformed"

\* ws.on('message') with an event that carries the id of the request of call
\* c: JSON.parse throws on a content that is no JSON and the catch block
\* logs; otherwise the content holds a result or an error
HandleIncomingEvent(c, kind) ==
  LET id == CreateEventId(c)
      pending == pendingRequests[id]
      counted == [calls EXCEPT ![c].deliveries = @ + 1]
  IN
  /\ c \in CallIds
  /\ calls[c].sent
  /\ calls[c].sock = sockets
  /\ calls[c].deliveries < MaxDeliveries
  /\ ws \in {"open", "closing"}
  /\ ~Creating
  /\ OnlyNwc
  /\ UNCHANGED <<ws, sockets>>
  /\ nlast' = NOp("message", c, pending, kind)
  /\ IF ~ContentParses(kind)
       THEN UNCHANGED <<calls, pendingRequests, connected>>
     ELSE IF pending # 0
       THEN LET untimed == [counted EXCEPT ![pending].timer =
                              IF @ = "armed" THEN "cleared" ELSE @]
            IN /\ pendingRequests' = [pendingRequests EXCEPT ![id] = 0]
               /\ calls' = IF kind = "error"
                             THEN RejectCall(untimed, pending, WalletError)
                             ELSE ResolveCall(untimed, pending, c)
               \* connect(): getInfo() has resolved
               /\ connected' = IF /\ kind = "result"
                                  /\ calls[pending].method = "get_info"
                                  /\ calls[pending].pc = "pending"
                                 THEN TRUE ELSE connected
       ELSE /\ calls' = counted
            /\ UNCHANGED <<pendingRequests, connected>>

\* (mutation of TimerFire: the callback forgets to reject)
TimerFireNoReject(c) ==
  /\ c \in CallIds
  /\ calls[c].timer = "armed"
  /\ ~Creating
  /\ OnlyNwc
  /\ pendingRequests' = [pendingRequests EXCEPT ![CreateEventId(c)] = 0]
  /\ calls' = [calls EXCEPT ![c].timer = "fired"]
  /\ nlast' = NOp("timeout", c, 0, "")
  /\ UNCHANGED <<connected, ws, sockets>>

\* the timeout callback of call c
TimerFire(c) ==
  /\ c \in CallIds
  /\ calls[c].timer = "armed"
  /\ ~Creating
  /\ OnlyNwc
  /\ pendingRequests' = [pendingRequests EXCEPT ![CreateEventId(c)] = 0]
  /\ calls' = RejectCall([calls EXCEPT ![c].timer = "fired"], c, RequestTimeout)
  /\ nlast' = NOp("timeout", c, 0, "")
  /\ UNCHANGED <<connected, ws, sockets>>

\* disconnect()
Disconnect ==
  /\ OnlyNwc
  /\ ws' = IF ws \in {"connecting", "open"} THEN "closing" ELSE ws
  /\ connected' = FALSE
  /\ pendingRequests' = [i \in EventIds |-> 0]
  /\ nlast' = NOp("disconnect", 0, 0, "")
  /\ UNCHANGED <<calls, sockets>>

\* ws.on('close')
WsClose ==
  /\ ws \in {"connecting", "open", "closing"}
  /\ ~Creating
  /\ OnlyNwc
  /\ ws' = "closed"
  /\ connected' = FALSE
  /\ nlast' = NOp("close", 0, 0, "disconnected")
  /\ UNCHANGED <<pendingRequests, calls, sockets>>

NNext ==
  \/ \E m \in ApiMethods : ApiCall(m)
  \/ \E c \in 1..MaxCalls : Register(c)
  \/ Connect
  \/ WsOpen
  \/ \E c \in 1..MaxCalls, k \in Contents : HandleIncomingEvent(c, k)
  \/ \E c \in 1..MaxCalls : TimerFire(c)
  \/ Disconnect
  \/ WsClose

(***************************************************************************)
(* NostrWalletConnect with auto-reconnect (src/unnamed/part_027): the      *)
(* client that talks to the wallet through relay events; the relay and the *)
(* wallet are the environment that delivers responses or lets timers run   *)
(* out                                                                     *)
(***************************************************************************)
WMaxRetries == 2     \* config.maxRetries
MaxPayments == 2     \* calls of payInvoice that get past its checks
MaxConnects == 2     \* activations of connect() / handleDisconnect() at a time
AutoReconnect == TRUE            \* config.autoReconnect ?? true
MaxAutoAttempts == WMaxRetries + 1

BaseDelay == 1000
DelayCap == 30000

PaymentIds == 1..MaxPayments
ConnectIds == 1..MaxConnects
PaymentTimeoutError == "Payment timeout"
PaymentFailed == "Payment failed"

IdleConnect == [pc |-> "idle", who |-> "", delay |-> 0]

\* op: the call or callback; call: the activation or payment call it is
\* about; res: how it ended; delay: the reconnect delay it scheduled
WOp(op, call, res, delay) == [op |-> op, call |-> call, res |-> res, delay |-> delay]

WInit ==
  /\ wConnected = FALSE
  /\ capabilities = "undefined"
  /\ reconnectAttempts = 0
  /\ pendingPayments = [i \in PaymentIds |-> 0]
  /\ payments = <<>>
  /\ connects = [i \in ConnectIds |-> IdleConnect]
  /\ onceConnected = FALSE
  /\ errorListener = FALSE
  /\ subscribed = FALSE
  /\ autoAttempts = 0
  /\ overlapped = FALSE
  /\ wlast = WOp("init", 0, "", 0)

FreeConnects == {i \in ConnectIds : connects[i].pc = "idle"}
FreeConnect == CHOOSE i \in FreeConnects : \A j \in FreeConnects : i <= j

\* Math.min(1000 * Math.pow(2, n - 1), 30000)
ReconnectDelay(n) ==
  IF BaseDelay * 2^(n - 1) < DelayCap THEN BaseDelay * 2^(n - 1) ELSE DelayCap

\* the guard of handleDisconnect: it returns at once
GivesUp == ~AutoReconnect \/ reconnectAttempts >= WMaxRetries

\* handleDisconnect() up to its await, run in activation i: the counter is
\* incremented and the delay is computed from it
HandleDisconnect(i, cs, op) ==
  IF GivesUp
    THEN /\ connects' = cs
         /\ wlast' = WOp(op, i, "gave up", 0)
         /\ UNCHANGED reconnectAttempts
    ELSE /\ reconnectAttempts' = reconnectAttempts + 1
         /\ connects' = [cs EXCEPT ![i] =
              [pc |-> "delay", who |-> "auto",
               delay |-> ReconnectDelay(reconnectAttempts + 1)]]
         /\ wlast' = WOp(op, i, "scheduled", ReconnectDelay(reconnectAttempts + 1))

\* the application registers a listener for 'error'
OnError ==
  /\ ~errorListener
  /\ OnlyWallet
  /\ errorListener' = TRUE
  /\ wlast' = WOp("onError", 0, "", 0)
  /\ UNCHANGED <<wConnected, capabilities, reconnectAttempts, pendingPayments,
                 payments, connects, onceConnected, subscribed, whist>>

\* the activations of handleDisconnect() that wait or connect
AutoActive(cs) == {i \in ConnectIds : cs[i].pc # "idle" /\ cs[i].who = "auto"}

\* connect() called by the application, up to the promise that waits for the
\* 'connected' event
WConnect ==
  /\ FreeConnects # {}
  /\ OnlyWallet
  /\ reconnectAttempts' = 0
  /\ subscribed' = TRUE
  /\ onceConnected' = TRUE
  /\ connects' = [connects EXCEPT ![FreeConnect] =
                    [pc |-> "waiting", who |-> "user", delay |-> 0]]
  /\ autoAttempts' = 0
  /\ overlapped' = (overlapped \/ AutoActive(connects) # {})
  /\ wlast' = WOp("connect", FreeConnect, "waiting", 0)
  /\ UNCHANGED <<wConnected, capabilities, pendingPayments, payments, errorListener>>

\* disconnect(): it emits 'disconnected', and the listener installed by the
\* constructor runs handleDisconnect() up to its await
WDisconnect ==
  /\ GivesUp \/ FreeConnects # {}
  /\ OnlyWallet
  /\ wConnected' = FALSE
  /\ capabilities' = "undefined"
  /\ pendingPayments' = [i \in PaymentIds |-> 0]
  /\ HandleDisconnect(IF GivesUp THEN 0 ELSE FreeConnect, connects, "disconnect")
  /\ overlapped' = (overlapped \/ (~GivesUp /\ AutoActive(connects) # {}))
  /\ UNCHANGED <<payments, onceConnected, errorListener, subscribed, autoAttempts>>

\* the delay of handleDisconnect() is over: connect() runs up to the promise
\* that waits for the 'connected' event
DelayElapsed(i) ==
  /\ connects[i].pc = "delay"
  /\ autoAttempts < MaxAutoAttempts
  /\ OnlyWallet
  /\ reconnectAttempts' = 0
  /\ subscribed' = TRUE
  /\ onceConnected' = TRUE
  /\ connects' = [connects EXCEPT ![i].pc = "waiting"]
  /\ autoAttempts' = autoAttempts + 1
  /\ wlast' = WOp("autoConnect", i, "waiting", connects[i].delay)
  /\ UNCHANGED overlapped
  /\ UNCHANGED <<wConnected, capabilities, pendingPayments, payments, errorListener>>

\* the connection timer of activation i fires: connect() rejects with
\* 'Connection timeout'; in handleDisconnect() the catch block emits 'error'
\* (which throws when nobody listens) and calls handleDisconnect() again
ConnectionTimeout(i) ==
  /\ connects[i].pc = "waiting"
  /\ OnlyWallet
  /\ IF connects[i].who = "user"
       THEN /\ connects' = [connects EXCEPT ![i] = IdleConnect]
            /\ wlast' = WOp("connectTimeout", i, "Connection timeout", 0)
            /\ UNCHANGED reconnectAttempts
     ELSE IF ~errorListener
       THEN /\ connects' = [connects EXCEPT ![i] = IdleConnect]
            /\ wlast' = WOp("connectTimeout", i, "unhandled error", 0)
            /\ UNCHANGED reconnectAttempts
       ELSE HandleDisconnect(i, [connects EXCEPT ![i] = IdleConnect], "connectTimeout")
  /\ UNCHANGED <<wConnected, capabilities, pendingPayments, payments,
                 onceConnected, errorListener, subscribed, whist>>

\* handleConnectionResponse: the wallet answers with status 'connected' and
\* its capabilities, or refuses; on 'connected' every waiting connect()
\* resolves, and handleDisconnect() goes on with reconnectAttempts = 0
HandleConnectionResponse(status, caps) ==
  /\ subscribed
  /\ OnlyWallet
  /\ IF status = "connected"
       THEN /\ capabilities' = caps
            /\ IF onceConnected
                 THEN /\ wConnected' = TRUE
                      /\ onceConnected' = FALSE
                      /\ connects' = [i \in ConnectIds |->
                           IF connects[i].pc = "waiting" THEN IdleConnect
                                                         ELSE connects[i]]
                      /\ reconnectAttempts' =
                           IF \E i \in ConnectIds :
                                connects[i].pc = "waiting" /\ connects[i].who = "auto"
                             THEN 0 ELSE reconnectAttempts
                      /\ autoAttempts' =
                           IF \E i \in ConnectIds :
                                connects[i].pc = "waiting" /\ connects[i].who = "auto"
                             THEN 0 ELSE autoAttempts
                 ELSE UNCHANGED <<wConnected, onceConnected, connects,
                                  reconnectAttempts, autoAttempts>>
            /\ wlast' = WOp("connectionResponse", 0, "connected", 0)
       ELSE /\ wlast' = WOp("connectionResponse", 0,
                            IF errorListener THEN "error emitted" ELSE "unhandled error", 0)
            /\ UNCHANGED <<wConnected, capabilities, onceConnected, connects,
                           reconnectAttempts, autoAttempts>>
  /\ UNCHANGED <<pendingPayments, payments, errorListener, subscribed, overlapped>>

\* payInvoice with payment id `id` (request.externalId), up to the promise
\* that waits for the response
PayInvoice(id) ==
  /\ OnlyWallet
  /\ UNCHANGED <<wConnected, capabilities, reconnectAttempts, connects,
                 onceConnected, errorListener, subscribed, whist>>
  /\ IF ~wConnected
       THEN /\ wlast' = WOp("payInvoice", 0, "Not connected to wallet", 0)
            /\ UNCHANGED <<payments, pendingPayments>>
     ELSE IF capabilities # "payInvoice"
       THEN /\ wlast' = WOp("payInvoice", 0, "Wallet does not support paying invoices", 0)
            /\ UNCHANGED <<payments, pendingPayments>>
       ELSE /\ Len(payments) < MaxPayments
            /\ payments' = Append(payments,
                 [id |-> id, pc |-> "pending", timer |-> "armed", err |-> ""])
            /\ pendingPayments' = [pendingPayments EXCEPT ![id] = Len(payments) + 1]
            /\ wlast' = WOp("payInvoice", Len(payments) + 1, "pending", 0)

\* the function stored in pendingPayments for call p: clearTimeout, resolve
ResolvePayment(ps, p) ==
  [ps EXCEPT ![p].timer = IF @ = "armed" THEN "cleared" ELSE @,
             ![p].pc = IF @ = "pending" THEN "resolved" ELSE @]

\* handlePaymentResponse: a payment response with the tag payment_id = id
\* and status 'success', or another status
HandlePaymentResponse(id, status) ==
  LET p == pendingPayments[id] IN
  /\ subscribed
  /\ OnlyWallet
  /\ UNCHANGED <<wConnected, capabilities, reconnectAttempts, connects,
                 onceConnected, errorListener, subscribed, whist>>
  /\ IF p = 0
       THEN /\ wlast' = WOp("paymentResponse", 0, "no pending payment", 0)
            /\ UNCHANGED <<payments, pendingPayments>>
     ELSE IF status = "success"
       THEN /\ payments' = ResolvePayment(payments, p)
            /\ pendingPayments' = [pendingPayments EXCEPT ![id] = 0]
            /\ wlast' = WOp("paymentResponse", p, "success", 0)
       ELSE /\ wlast' = WOp("paymentResponse", p, PaymentFailed, 0)
            /\ UNCHANGED <<payments, pendingPayments>>

\* the payment timer of call p fires
PaymentTimeout(p) ==
  /\ p \in 1..Len(payments)
  /\ payments[p].timer = "armed"
  /\ OnlyWallet
  /\ pendingPayments' = [pendingPayments EXCEPT ![payments[p].id] = 0]
  /\ payments' = [payments EXCEPT ![p].timer = "fired",
                                  ![p].pc = IF @ = "pending" THEN "rejected" ELSE @,
                                  ![p].err = IF payments[p].pc = "pending"
                                               THEN PaymentTimeoutError ELSE @]
  /\ wlast' = WOp("paymentTimeout", p, PaymentTimeoutError, 0)
  /\ UNCHANGED <<wConnected, capabilities, reconnectAttempts, connects,
                 onceConnected, errorListener, subscribed, whist>>

WNext ==
  \/ OnError
  \/ WConnect
  \/ WDisconnect
  \/ \E i \in ConnectIds : DelayElapsed(i)
  \/ \E i \in ConnectIds : ConnectionTimeout(i)
  \/ \E st \in {"connected", "rejected"}, caps \in {"payInvoice", "none"} :
       HandleConnectionResponse(st, caps)
  \/ \E id \in PaymentIds : PayInvoice(id)
  \/ \E id \in PaymentIds, st \in {"success", "failed"} : HandlePaymentResponse(id, st)
  \/ \E p \in 1..MaxPayments : PaymentTimeout(p)

(***************************************************************************)
(* NostrWalletConnect (src/dist/nwc/index.d.ts): the constructor parses    *)
(* the connection string.  A string is a sequence of symbols: the prefix   *)
(* 'nostr+walletconnect:' and the words 'relay', 'secret' and 'undefined'  *)
(* are one symbol each, everything else is a character                     *)
(***************************************************************************)
MaxParams == 2       \* parameters in the query of a connection string

Prefix == "nostr+walletconnect:"
InvalidProtocol == "Invalid NWC protocol"
Null == <<"null">>
Hex == {"2", "5"}

\* the values a parameter of a descriptor can stand for, before they are
\* percent-encoded into the connection string: empty, plain text, a lone
\* percent sign, text that holds a percent escape of its own
ParamValues == {<<>>, <<"w">>, <<"%">>, <<"w", "%", "2", "5">>}
ParamNames == {"relay", "secret"}
Pubkeys == {<<>>, <<"k">>}

Descriptors ==
  [prefix : BOOLEAN, pubkey : Pubkeys, query : BOOLEAN,
   params : UNION {[1..n -> [name : ParamNames, value : ParamValues]] : n \in 0..MaxParams}]

\* encodeURIComponent, by which the writer of a descriptor encodes a value
RECURSIVE EncodeURIComponent(_)
EncodeURIComponent(v) ==
  IF v = <<>> THEN <<>>
  ELSE (IF Head(v) = "%" THEN <<"%", "2", "5">> ELSE <<Head(v)>>)
         \o EncodeURIComponent(Tail(v))

RECURSIVE JoinParams(_)
JoinParams(ps) ==
  IF ps = <<>> THEN <<>>
  ELSE <<ps[1].name, "=">> \o EncodeURIComponent(ps[1].value)
         \o (IF Len(ps) > 1 THEN <<"&">> ELSE <<>>) \o JoinParams(Tail(ps))

\* the connection string of descriptor d
ConnectionString(d) ==
  (IF d.prefix THEN <<Prefix>> ELSE <<>>) \o d.pubkey
    \o (IF d.query THEN <<"?">> \o JoinParams(d.params) ELSE <<>>)

\* String.prototype.replace(x, ''): the first occurrence of x is taken out
RECURSIVE Replace(_, _)
Replace(str, x) ==
  IF str = <<>> THEN <<>>
  ELSE IF Head(str) = x THEN Tail(str)
  ELSE <<Head(str)>> \o Replace(Tail(str), x)

\* String.prototype.split(sep): the parts between the separators
RECURSIVE Split(_, _)
Split(str, sep) ==
  IF \A i \in 1..Len(str) : str[i] # sep THEN <<str>>
  ELSE LET i == CHOOSE i \in 1..Len(str) :
                  str[i] = sep /\ \A j \in 1..(i - 1) : str[j] # sep
       IN <<SubSeq(str, 1, i - 1)>> \o Split(SubSeq(str, i + 1, Len(str)), sep)

\* the character a percent escape stands for
Unescape(a, b) ==
  CASE <<a, b>> = <<"2", "5">> -> "%"
    [] <<a, b>> = <<"2", "2">> -> "quote"
    [] <<a, b>> = <<"5", "2">> -> "R"
    [] <<a, b>> = <<"5", "5">> -> "U"

EscapeAt(str) == Len(str) >= 3 /\ str[1] = "%" /\ str[2] \in Hex /\ str[3] \in Hex

\* percent-decoding: an escape becomes its character, everything else stays
RECURSIVE PercentDecode(_)
PercentDecode(str) ==
  IF str = <<>> THEN <<>>
  ELSE IF EscapeAt(str)
    THEN <<Unescape(str[2], str[3])>> \o PercentDecode(SubSeq(str, 4, Len(str)))
    ELSE <<Head(str)>> \o PercentDecode(Tail(str))

\* decodeURIComponent throws URIError on a '%' that starts no escape
RECURSIVE Malformed(_)
Malformed(str) ==
  IF str = <<>> THEN FALSE
  ELSE IF EscapeAt(str) THEN Malformed(SubSeq(str, 4, Len(str)))
  ELSE Head(str) = "%" \/ Malformed(Tail(str))

\* new URLSearchParams('?' + params): the pairs name=value between the '&',
\* names and values percent-decoded; an empty part gives no pair
SearchParams(params) ==
  LET parts == SelectSeq(Split(params, "&"), LAMBDA part : part # <<>>)
      Pair(part) ==
        LET nv == Split(part, "=") IN
        [name |-> PercentDecode(nv[1]),
         value |-> PercentDecode(SubSeq(part, Len(nv[1]) + 2, Len(part)))]
  IN [i \in 1..Len(parts) |-> Pair(parts[i])]

\* URLSearchParams.get(name): the value of the first pair of that name
Get(pairs, name) ==
  IF \E i \in 1..Len(pairs) : pairs[i].name = <<name>>
    THEN pairs[CHOOSE i \in 1..Len(pairs) :
                 /\ pairs[i].name = <<name>>
                 /\ \A j \in 1..(i - 1) : pairs[j].name # <<name>>].value
    ELSE Null

Failed == [state |-> InvalidProtocol, pubkey |-> <<>>, relayUrl |-> <<>>, secret |-> <<>>]

\* parseConnectionString
ParseConnectionString(connectionString) ==
  LET cleanUrl == Replace(connectionString, Prefix)
      parts == Split(cleanUrl, "?")
      pubkey == parts[1]
      params == IF Len(parts) >= 2 THEN parts[2] ELSE <<"undefined">>
      searchParams == SearchParams(params)
      relay == Get(searchParams, "relay")
      secret == Get(searchParams, "secret")
  IN IF pubkey = <<>> THEN Failed
     ELSE IF relay \in {Null, <<>>} \/ secret \in {Null, <<>>} THEN Failed
     ELSE IF Malformed(relay) THEN Failed
     ELSE [state |-> "ok", pubkey |-> pubkey,
           relayUrl |-> PercentDecode(relay), secret |-> secret]

NoDetails == [pubkey |-> Null, relayUrl |-> Null, secret |-> Null]

NotConstructed == [state |-> "none", pubkey |-> <<>>, relayUrl |-> <<>>, secret |-> <<>>]

\* the descriptor of a plain connection string: prefix, pubkey, relay, secret
PlainDescriptor ==
  [prefix |-> TRUE, pubkey |-> <<"k">>, query |-> TRUE,
   params |-> <<[name |-> "relay", value |-> <<"w">>],
                [name |-> "secret", value |-> <<"w">>]>>]

DInit ==
  /\ descriptor = PlainDescriptor
  /\ client = NotConstructed
  /\ details = NoDetails

\* the constructor is given any connection string
DInputs ==
  /\ descriptor \in Descriptors
  /\ client = NotConstructed
  /\ details = NoDetails

\* new NostrWalletConnect({connectionString})
Construct ==
  /\ client.state = "none"
  /\ OnlyParse
  /\ client' = ParseConnectionString(ConnectionString(descriptor))
  /\ UNCHANGED <<descriptor, details>>

\* getConnectionDetails() on the client the constructor returned
GetConnectionDetails ==
  /\ client.state = "ok"
  /\ details = NoDetails
  /\ OnlyParse
  /\ details' = [pubkey |-> client.pubkey, relayUrl |-> client.relayUrl,
                 secret |-> client.secret]
  /\ UNCHANGED <<descriptor, client>>

DNext ==
  \/ Construct
  \/ GetConnectionDetails

(***************************************************************************)
(* NostrWalletConnect of src/src/nwc/index.ts: every call waits for an     *)
(* event that the response handlers emit on the client itself. The client  *)
(* is constructed with a wallet pubkey, as in its tests.                   *)
(***************************************************************************)
\* number of connect() and payInvoice() calls in one behaviour
MaxClientCalls == 3
SCallIds == 1..MaxClientCalls

\* stale: disconnect() was called while the call was pending (history)
NoCall == [kind |-> "none", pc |-> "idle", timer |-> FALSE, listener |-> FALSE,
           stale |-> FALSE]

SOp(op, call, res) == [op |-> op, call |-> call, res |-> res]

SInit ==
  /\ sConnected = FALSE
  /\ sCalls = [c \in SCallIds |-> NoCall]
  /\ slast = SOp("init", 0, "")

\* calls are numbered in the order in which they are made
UnusedCalls == {c \in SCallIds : sCalls[c].kind = "none"}
NextCall == CHOOSE c \in UnusedCalls : \A d \in UnusedCalls : c <= d

\* a call is suspended at `await this.publishEvent(...)`, which is settled:
\* its continuation runs before any timer or incoming event
Publishing == \E c \in SCallIds : sCalls[c].pc = "publishing"

\* connect() up to `await this.publishEvent(connectionEvent)`
SConnect ==
  /\ UnusedCalls # {}
  /\ OnlyClient
  /\ sCalls' = [sCalls EXCEPT ![NextCall] =
                  [NoCall EXCEPT !.kind = "connect", !.pc = "publishing"]]
  /\ slast' = SOp("connect", NextCall, "publishing")
  /\ UNCHANGED sConnected

\* payInvoice(request) up to `await this.publishEvent(paymentEvent)`
SPayInvoice ==
  /\ UnusedCalls # {}
  /\ OnlyClient
  /\ IF ~sConnected
       THEN /\ sCalls' = [sCalls EXCEPT ![NextCall] =
                            [NoCall EXCEPT !.kind = "pay", !.pc = "refused"]]
            /\ slast' = SOp("payInvoice", NextCall, "Not connected to wallet")
       ELSE /\ sCalls' = [sCalls EXCEPT ![NextCall] =
                            [NoCall EXCEPT !.kind = "pay", !.pc = "publishing"]]
            /\ slast' = SOp("payInvoice", NextCall, "publishing")
  /\ UNCHANGED sConnected

\* the promise a call returns after publishEvent: it arms the timer and
\* registers the once(...) listener
Published(c) ==
  /\ sCalls[c].pc = "publishing"
  /\ OnlyClient
  /\ sCalls' = [sCalls EXCEPT ![c].pc = "waiting", ![c].timer = TRUE,
                              ![c].listener = TRUE]
  /\ slast' = SOp("published", c, "waiting")
  /\ UNCHANGED sConnected

\* the setTimeout callback of call c: it rejects the promise, nothing else
CallTimeout(c) ==
  /\ sCalls[c].timer
  /\ ~Publishing
  /\ OnlyClient
  /\ sCalls' = [sCalls EXCEPT ![c].pc = "rejected", ![c].timer = FALSE]
  /\ slast' = SOp("timeout", c,
                  IF sCalls[c].kind = "connect" THEN "Connection timeout"
                  ELSE "Payment timeout")
  /\ UNCHANGED sConnected

\* the once(...) listener of a call runs: clearTimeout, resolve (which has
\* no effect on a promise that is settled); the listener is removed
RunListener(call) ==
  [call EXCEPT !.listener = FALSE, !.timer = FALSE,
               !.pc = IF call.pc = "waiting" THEN "resolved" ELSE call.pc]

\* this.emit(name, ...): every listener registered for the event runs
Emit(kind) ==
  [c \in SCallIds |->
     IF sCalls[c].kind = kind /\ sCalls[c].listener
       THEN RunListener(sCalls[c]) ELSE sCalls[c]]

ConnectListeners == {c \in SCallIds : sCalls[c].kind = "connect" /\ sCalls[c].listener}

\* handleConnectionResponse(event); each listener of 'connected' sets
\* this.connected
SHandleConnectionResponse(status) ==
  /\ ~Publishing
  /\ OnlyClient
  /\ IF status = "connected"
       THEN /\ sCalls' = Emit("connect")
            /\ sConnected' = (sConnected \/ ConnectListeners # {})
       ELSE UNCHANGED <<sCalls, sConnected>>
  /\ slast' = SOp("connectionResponse", 0, status)

\* the payInvoice calls whose request went out
Requested == {c \in SCallIds : sCalls[c].kind = "pay" /\
                               sCalls[c].pc \in {"waiting", "resolved", "rejected"}}

\* handlePaymentResponse(event) for the response the wallet made to the
\* request of call b
SHandlePaymentResponse(b, status) ==
  /\ b \in Requested
  /\ ~Publishing
  /\ OnlyClient
  /\ IF status = "success"
       THEN sCalls' = Emit("pay")
       ELSE UNCHANGED sCalls
  /\ slast' = SOp("paymentResponse", b, status)
  /\ UNCHANGED sConnected

\* disconnect(); this.subscriptions is always empty
SDisconnect ==
  /\ OnlyClient
  /\ sConnected' = FALSE
  /\ sCalls' = [c \in SCallIds |->
                  IF sCalls[c].pc \in {"publishing", "waiting"}
                    THEN [sCalls[c] EXCEPT !.stale = TRUE] ELSE sCalls[c]]
  /\ slast' = SOp("disconnect", 0, "")

SNext ==
  \/ SConnect
  \/ SPayInvoice
  \/ \E c \in SCallIds : Published(c)
  \/ \E c \in SCallIds : CallTimeout(c)
  \/ \E st \in {"connected", "rejected"} : SHandleConnectionResponse(st)
  \/ \E b \in SCallIds, st \in {"success", "failed"} : SHandlePaymentResponse(b, st)
  \/ SDisconnect

(***************************************************************************)
(* NostrCommerce: the relays start() has connected, and subscribe()        *)
(***************************************************************************)
\* config.relays, in the order of the array
ConfigRelays == <<1, 2>>
\* number of subscribe() calls in one behaviour
MaxSubscribes == 3
SubIds == 1..MaxSubscribes

KOp(op, id, res) == [op |-> op, id |-> id, res |-> res]

KInit ==
  /\ relayPools = {}
  /\ eventHandlers = {}
  /\ relaySubs = {}
  /\ cancels = {}
  /\ subscribes = 0
  /\ klast = KOp("init", 0, "")

\* start(): getPool(relay) has succeeded for one relay of the configuration
\* and `this.pools.set(relay, pool)` runs
RelayStarted(k) ==
  /\ ConfigRelays[k] \notin relayPools
  /\ OnlyCommerce
  /\ relayPools' = relayPools \cup {ConfigRelays[k]}
  /\ klast' = KOp("start", ConfigRelays[k], "connected")
  /\ UNCHANGED <<eventHandlers, relaySubs, cancels, subscribes>>

\* position in config.relays of the first relay that has no entry in
\* this.pools, 0 if every relay has one
FirstMissing ==
  LET missing == {k \in 1..Len(ConfigRelays) : ConfigRelays[k] \notin relayPools} IN
  IF missing = {} THEN 0 ELSE CHOOSE k \in missing : \A j \in missing : k <= j

\* the relays for which the callback of `this.config.relays.map` runs to its
\* end: all of them, or those before the one at which it throws
Mapped ==
  IF FirstMissing = 0 THEN {ConfigRelays[k] : k \in 1..Len(ConfigRelays)}
  ELSE {ConfigRelays[k] : k \in 1..(FirstMissing - 1)}

\* subscribe(filters, callback); subscription ids are numbered in the order
\* of the calls
Subscribe ==
  LET id == subscribes + 1 IN
  /\ id <= MaxSubscribes
  /\ OnlyCommerce
  /\ subscribes' = id
  /\ eventHandlers' = eventHandlers \cup {id}
  /\ relaySubs' = relaySubs \cup {<<id, r>> : r \in Mapped}
  /\ IF FirstMissing = 0
       THEN /\ cancels' = cancels \cup {id}
            /\ klast' = KOp("subscribe", id, "ok")
       ELSE /\ cancels' = cancels
            /\ klast' = KOp("subscribe", id, "RELAY_CONNECTION_FAILED")
  /\ UNCHANGED relayPools

\* the function subscribe() returned for subscription id is called
Cancel(id) ==
  /\ id \in cancels
  /\ OnlyCommerce
  /\ eventHandlers' = eventHandlers \ {id}
  /\ relaySubs' = {p \in relaySubs : p[1] # id}
  /\ klast' = KOp("cancel", id, "")
  /\ UNCHANGED <<relayPools, cancels, subscribes>>

\* stop(): the connection pool closes every relay connection, which ends the
\* subscriptions made on them; both maps are cleared
Stop ==
  /\ OnlyCommerce
  /\ relayPools' = {}
  /\ eventHandlers' = {}
  /\ relaySubs' = {}
  /\ klast' = KOp("stop", 0, "")
  /\ UNCHANGED <<cancels, subscribes>>

KNext ==
  \/ \E k \in 1..Len(ConfigRelays) : RelayStarted(k)
  \/ Subscribe
  \/ \E id \in SubIds : Cancel(id)
  \/ Stop

Init == QInit /\ PInit /\ CInit /\ NInit /\ WInit /\ DInit /\ SInit /\ KInit

\* the queue, the pool's connections and its cache share no state: each is
\* checked on its own
SpecQueue == Init /\ [][QNext]_vars

SpecQueueTimeouts == Init /\ [][QNextTimeouts]_vars

SpecPool == Init /\ [][PNext]_vars

SpecCache == Init /\ [][CNext]_vars

SpecNwc == Init /\ [][NNext]_vars

SpecWallet == Init /\ [][WNext]_vars

SpecClient == Init /\ [][SNext]_vars

SpecCommerce == Init /\ [][KNext]_vars

\* the parsing of the connection string is checked for every descriptor
InitParse ==
  QInit /\ PInit /\ CInit /\ NInit /\ WInit /\ DInputs /\ SInit /\ KInit

SpecParse == InitParse /\ [][DNext]_vars

\* a timer that is armed fires unless it is cancelled, and the continuation
\* of a suspended sendRequest runs
SpecNwcFair ==
  SpecNwc /\ \A c \in 1..MaxCalls : WF_vars(TimerFire(c)) /\ WF_vars(Register(c))

\* The pool under the scheduling of the event loop: the setInterval timer of
\* the constructor keeps firing, the continuation of a settled await runs,
\* and the race of connectToRelay always ends (its timeout timer fires if
\* nothing else does). A timer callback waits for the promise reactions that
\* are queued, which are finitely many each time, so it is not starved by
\* them: strong fairness.
SpecPoolFair ==
  /\ SpecPool
  /\ SF_vars(MonitorTick)
  /\ \A t \in TaskIds :
       /\ SF_vars(\E o \in ConnectOutcomes : Settle(t, o))
       /\ WF_vars(Resume(t))

\* The queue with handlers that never reject, under the scheduling of the
\* event loop: the timer of Promise.race fires unless the handler settled
\* first, so every await on a handler ends; the retryDelay timer fires.
SpecQueueFair ==
  /\ SpecQueueTimeouts
  /\ \A i \in LoopIds :
       /\ WF_vars(\E o \in {"ok", TimeoutError} : HandlerDone(i, o))
       /\ WF_vars(DelayDone(i))

(***************************************************************************)
(* Properties of MessageQueue                                              *)
(***************************************************************************)
Created == 1..Len(msgs)
Invocations(x) == Count(handlerLog, x)
InFlight(x) == \E i \in LoopIds : loops[i].pc = "handler" /\ loops[i].msg = x
Drained == queue = <<>> /\ ActiveLoops = {}
LoggedPriorities == [k \in 1..Len(handlerLog) |-> msgs[handlerLog[k]].priority]

\* C1: items enqueued with priorities 2, 1, 3 (in that order) on an idle
\* queue, every handler call succeeding and no clear(): once the queue has
\* drained, the handler was called for priorities 3, 2, 1 in that order.
C1_PriorityOrder ==
  ( /\ Len(msgs) = 3
    /\ <<msgs[1].priority, msgs[2].priority, msgs[3].priority>> = <<2, 1, 3>>
    /\ clears = 0
    /\ \A x \in Created : msgs[x].attempts = 0
    /\ Drained )
  => LoggedPriorities = <<3, 2, 1>>

\* C2: once the handler call for item X has succeeded, X was notified as
\* processed exactly once, X is no longer buffered and no handler runs for X.
C2_SuccessRemovesHandledItem ==
  \A x \in Created :
    processedCount[x] >= 1 =>
      /\ processedCount[x] = 1
      /\ ~InQueue(x)
      /\ ~InFlight(x)

\* C3: an accepted item that is no longer buffered, and was not discarded by
\* clear(), has been handed to its handler at least once.
C3_AtLeastOnce ==
  \A x \in Created :
    (~InQueue(x) /\ x \notin cleared) => Invocations(x) >= 1

\* C4: without clear(), an item whose handler never succeeds is handed to the
\* handler at most retryAttempts times and gets at most one 'messageFailed';
\* when that notification is out, the handler has been called exactly
\* retryAttempts times for it and the item is gone from the buffer.
C4_RetryThenDrop ==
  clears = 0 =>
    \A x \in Created :
      processedCount[x] = 0 =>
        /\ Invocations(x) <= RetryAttempts
        /\ failedCount[x] <= 1
        /\ failedCount[x] = 1 =>
             (Invocations(x) = RetryAttempts /\ ~InQueue(x) /\ ~InFlight(x))

C6_InvalidType ==
  [][ lastOp'.op = "enqueue" =>
        /\ (lastOp'.arg \notin handlers) <=> (lastOp'.res = "InvalidMessageType")
        /\ lastOp'.res = "InvalidMessageType" => UNCHANGED qvars
    ]_vars

\* an unregistered type was rejected with InvalidMessageType at a full buffer
C6_Witness ==
  /\ lastOp.op = "enqueue" /\ lastOp.res = "InvalidMessageType"
  /\ lastOp.arg \notin handlers
  /\ Len(queue) = MaxSize

\* C7: the completion (success, failure or timeout) of a handler call that
\* was in flight when clear() ran leaves the queue as it is.
C7_ClearIsolation ==
  [][ (lastOp'.op = "handlerDone" /\ lastOp'.arg = "stale") => queue' = queue ]_vars

(***************************************************************************)
(* Properties of ConnectionPool                                            *)
(***************************************************************************)
Connecting(e) == {t \in TaskIds : tasks[t].pc = "connecting" /\ tasks[t].relay = e}
Waiting(e) == {t \in TaskIds : tasks[t].pc # "idle" /\ tasks[t].relay = e}

\* C8: as long as close() is not called, there is for every relay at most one
\* establishment (ensureRelay) under way, and every activation that works on
\* the relay holds the connection object the map holds for it.
C8_OneConnectionPerEndpoint ==
  ~everClosed =>
    \A e \in Relays :
      /\ Cardinality(Connecting(e)) <= 1
      /\ \A t \in Waiting(e) : pools[e] # 0 => tasks[t].conn = pools[e]

\* C9: when getPool hands a connection to its caller (and close() was never
\* called), the relay is marked healthy and no establishment of that
\* connection is still under way.
C9_ReturnsOnlyLive ==
  (plast.op \in {"getPool", "getPoolDone"} /\ plast.res = "returned" /\ ~everClosed) =>
    /\ connectionStatus[plast.relay] = "up"
    /\ \A t \in Connecting(plast.relay) : tasks[t].conn # plast.conn

\* C10: the map never holds more than maxConnections entries; a getPool call
\* for a relay that is not in the map, made while the map holds
\* maxConnections entries, fails with CONNECTION_LIMIT_EXCEEDED, and a call
\* that fails so creates no connection and changes nothing in the pool.
C10_Ceiling ==
  [][ /\ PoolSize(pools') <= MaxConnections
      /\ plast'.op = "getPool" =>
           /\ (pools[plast'.relay] = 0 /\ PoolSize(pools) >= MaxConnections) =>
                plast'.res = "CONNECTION_LIMIT_EXCEEDED"
           /\ plast'.res = "CONNECTION_LIMIT_EXCEEDED" =>
                /\ pools[plast'.relay] = 0
                /\ PoolSize(pools) = MaxConnections
                /\ UNCHANGED pstate
    ]_vars

\* a getPool call was refused at the ceiling
C10_Witness ==
  /\ plast.op = "getPool" /\ plast.res = "CONNECTION_LIMIT_EXCEEDED"
  /\ pools[plast.relay] = 0
  /\ PoolSize(pools) = MaxConnections

\* C11: when close() has run and no connectToRelay activation is suspended,
\* no relay has a map entry, a health flag or a retry counter left.
C11_CloseResets ==
  (plast.op = "close" /\ \A t \in TaskIds : tasks[t].pc = "idle") =>
    \A e \in Relays :
      /\ pools[e] = 0
      /\ connectionStatus[e] = "none"
      /\ retryAttempts[e] = NoEntry

\* C12: for a relay whose establishment has not succeeded since its retry
\* counter was last reset, ensureRelay has been called at most maxRetries
\* times, and the retry counter never exceeds maxRetries.
C12_BoundedRetries ==
  \A e \in Relays :
    /\ retryAttempts[e] <= MaxRetries
    /\ ensureCalls[e] <= MaxRetries

\* C13: a monitor tick that comes right after getPool(e) was rejected because
\* establishment failed, with retries left for e, no activation suspended and
\* every entry of the map healthy, calls ensureRelay for e once more.
C13_MonitorReconnects ==
  [][ ( /\ plast'.op = "monitorTick"
        /\ plast.op = "getPoolDone"
        /\ plast.res \in {"ensureRelay failed", "RELAY_TIMEOUT"}
        /\ RetryOf(plast.relay) < MaxRetries
        /\ \A t \in TaskIds : tasks[t].pc = "idle"
        /\ \A e \in Relays : pools[e] # 0 => connectionStatus[e] = "up" )
      => ensureCalls'[plast.relay] = ensureCalls[plast.relay] + 1
    ]_vars

(***************************************************************************)
(* Properties of the cache                                                 *)
(***************************************************************************)
\* C14: a getCache or hasCache call on an entry stored by setCache (and not
\* since invalidated, cleared or evicted) hits, with the stored value, while
\* less than ttl has passed since the setCache call, and misses when more
\* than ttl has passed since it, whatever reads were made in between.
C14_CacheTtl ==
  (clast.op \in {"getCache", "hasCache"} /\ setAt[clast.key] # NoEntry) =>
    LET k == clast.key
        age == now - setAt[k]
    IN /\ age < CacheTtl =>
            /\ Held(k)
            /\ clast.res = IF clast.op = "getCache" THEN cache[k].val ELSE 1
       /\ age > CacheTtl => clast.res = 0

(***************************************************************************)
(* Properties of NostrWalletConnect                                        *)
(***************************************************************************)
Outstanding(c) == c \in CallIds /\ calls[c].pc = "pending"
HasEntry(c) == \E i \in EventIds : pendingRequests[i] = c

\* C15: on a connected client, the first response to the request of an
\* outstanding payInvoice call, carrying a result, resolves that call with
\* the payment hash of that response, cancels its timer and removes its
\* pending request.
C15_RoundTrip ==
  [][ ( /\ nlast'.op = "message"
        /\ nlast'.res = "result"
        /\ connected
        /\ Outstanding(nlast'.call)
        /\ calls[nlast'.call].method = "pay_invoice"
        /\ calls[nlast'.call].deliveries = 0 )
      => LET c == nlast'.call IN
         /\ calls'[c].pc = "resolved"
         /\ calls'[c].hash = c
         /\ calls'[c].timer = "cleared"
         /\ \A i \in EventIds : pendingRequests'[i] # c
    ]_vars

\* C18: registering a call, delivering a response to the request of an
\* outstanding call, or the timer of an outstanding call firing leaves every
\* other outstanding call as it is: still outstanding, its timer as before,
\* its pending request in place.
C18_CallIsolation ==
  [][ ( \/ nlast'.op = "register"
        \/ nlast'.op \in {"message", "timeout"} /\ Outstanding(nlast'.call) ) =>
        \A d \in CallIds \ {nlast'.call} :
          Outstanding(d) =>
            /\ calls'[d].pc = calls[d].pc
            /\ calls'[d].timer = calls[d].timer
            /\ HasEntry(d) => HasEntry(d)'
    ]_vars

\* C17: no call is settled more than once; a further response to the request
\* of a call that is already settled finds no pending request and changes
\* nothing: no map entry, no call, no timer.
C17_IdempotentResolution ==
  [][ /\ \A d \in CallIds : calls'[d].settles <= 1
      /\ ( /\ nlast'.op = "message"
           /\ calls[nlast'.call].deliveries >= 1
           /\ calls[nlast'.call].pc \in {"resolved", "rejected"} )
         => /\ nlast'.to = 0
            /\ UNCHANGED <<pendingRequests, connected>>
            /\ \A d \in CallIds :
                 /\ calls'[d].pc = calls[d].pc
                 /\ calls'[d].timer = calls[d].timer
                 /\ calls'[d].hash = calls[d].hash
    ]_vars

\* C19: disconnect() leaves connected false, and every call that was
\* outstanding when it ran is rejected by it, with an error other than the
\* timeout error, and has no timer armed any more.
C19_DisconnectCancels ==
  [][ nlast'.op = "disconnect" =>
        /\ ~connected'
        /\ \A c \in CallIds :
             Outstanding(c) =>
               /\ calls'[c].pc = "rejected"
               /\ calls'[c].err # RequestTimeout
               /\ calls'[c].timer # "armed"
    ]_vars

\* C20: payInvoice, getBalance, makeInvoice or listTransactions called while
\* connected is false fails at once with 'Not connected' and changes nothing:
\* no call is recorded, nothing is sent, no pending request, no timer.
C20_NotConnected ==
  [][ (nlast'.op \in ApiMethods /\ ~connected) =>
        /\ nlast'.res = "Not connected"
        /\ UNCHANGED nstate
    ]_vars

\* a call was refused with 'Not connected' on an open socket, while the
\* get_info request of connect() was still outstanding
C20_Witness ==
  /\ nlast.op \in ApiMethods
  /\ nlast.res = "Not connected"
  /\ ws = "open"
  /\ \E c \in CallIds : Outstanding(c) /\ calls[c].method = "get_info"

WalletMethods == ApiMethods \ {"list_transactions"}

\* C21: on a connected client a call of a method the wallet did not advertise
\* fails at once with UnsupportedMethod: no call is made pending, nothing is
\* sent.
C21_UnsupportedMethod ==
  [][ (nlast'.op \in ApiMethods \ WalletMethods /\ connected) =>
        /\ nlast'.res = "UnsupportedMethod"
        /\ UNCHANGED <<calls, pendingRequests>>
    ]_vars

\* the signature createEvent gives the event of call c: '' ("to be
\* calculated")
CreateEventSig(c) == EmptyId

\* C26: every request that is sent carries an id and a signature that are
\* not empty.
C26_OnlySealedSent ==
  [][ (nlast'.op = "register" /\ calls'[nlast'.call].sent) =>
        /\ CreateEventId(nlast'.call) # EmptyId
        /\ CreateEventSig(nlast'.call) # EmptyId
    ]_vars

\* C27: handling a message whose content cannot be decoded changes nothing:
\* connected, the pending requests, every call and every timer stay as they
\* are, and no call is settled.
C27_MalformedIgnored ==
  [][ (nlast'.op = "message" /\ nlast'.res = "malformed") => UNCHANGED nstate ]_vars

\* a message that cannot be decoded arrived with the id of the request of an
\* outstanding call, which is still outstanding with its timer armed
C27_Witness ==
  /\ nlast.op = "message" /\ nlast.res = "malformed"
  /\ nlast.to # 0
  /\ Outstanding(nlast.to)
  /\ calls[nlast.to].timer = "armed"
  /\ pendingRequests[CreateEventId(nlast.to)] = nlast.to

(***************************************************************************)
(* Properties of NostrWalletConnect with auto-reconnect                    *)
(***************************************************************************)
PaymentOutstanding(p) == p \in 1..Len(payments) /\ payments[p].pc = "pending"

\* C22: a payment response that reports a failure, delivered for an
\* outstanding payInvoice call, rejects that call in that very step with the
\* reported failure, cancels its timer and removes its pending entry.
C22_RemoteFailureRejects ==
  [][ ( /\ wlast'.op = "paymentResponse"
        /\ wlast'.res = PaymentFailed
        /\ PaymentOutstanding(wlast'.call) )
      => LET p == wlast'.call IN
         /\ payments'[p].pc = "rejected"
         /\ payments'[p].err = PaymentFailed
         /\ payments'[p].timer = "cleared"
         /\ \A i \in PaymentIds : pendingPayments'[i] # p
    ]_vars

\* C23: as long as automatic reconnects do not overlap with each other or
\* with an explicit connect(): since the last successful automatic attempt
\* or explicit connect() the client makes at most maxRetries automatic connect
\* attempts; when an automatic attempt starts, reconnectAttempts counts at
\* least the automatic attempts made so far, this one included; and
\* reconnectAttempts goes down only when a connection succeeds or connect()
\* is called explicitly.
C23_GivesUp ==
  [][ ~overlapped' =>
        /\ autoAttempts' <= WMaxRetries
        /\ wlast'.op = "autoConnect" => reconnectAttempts' >= autoAttempts'
        /\ reconnectAttempts' < reconnectAttempts =>
             wlast'.op \in {"connectionResponse", "connect"}
    ]_vars

\* the delay the k-th automatic attempt in a row has to wait for
Backoff(k) == IF 1000 * 2^(k - 1) < 30000 THEN 1000 * 2^(k - 1) ELSE 30000

\* C24: when the client schedules an automatic attempt after k - 1 failed
\* automatic attempts in a row (automatic reconnects not overlapping with
\* each other or with an explicit connect()), the delay is
\* min(1000 * 2^(k-1), 30000) milliseconds.
C24_Backoff ==
  [][ (wlast'.res = "scheduled" /\ ~overlapped') =>
        wlast'.delay = Backoff(autoAttempts + 1)
    ]_vars

(***************************************************************************)
(* Properties of the construction of NostrWalletConnect                    *)
(***************************************************************************)
\* the value the descriptor carries for a parameter: that of its first
\* parameter of that name, if it has a query
Carried(d, name) ==
  IF d.query /\ \E i \in 1..Len(d.params) : d.params[i].name = name
    THEN d.params[CHOOSE i \in 1..Len(d.params) :
                    /\ d.params[i].name = name
                    /\ \A j \in 1..(i - 1) : d.params[j].name # name].value
    ELSE Null

Complete(d) ==
  /\ d.pubkey # <<>>
  /\ Carried(d, "relay") \notin {Null, <<>>}
  /\ Carried(d, "secret") \notin {Null, <<>>}

\* C25: the constructor succeeds exactly when the descriptor carries a pubkey,
\* a relay and a secret (none of them empty), and throws 'Invalid NWC
\* protocol' otherwise; getConnectionDetails then returns the three values
\* the descriptor carries.
C25_DescriptorValidation ==
  /\ client.state # "none" =>
       /\ client.state = "ok" <=> Complete(descriptor)
       /\ client.state # "ok" => client.state = InvalidProtocol
  /\ details # NoDetails =>
       details = [pubkey |-> descriptor.pubkey,
                  relayUrl |-> Carried(descriptor, "relay"),
                  secret |-> Carried(descriptor, "secret")]

(***************************************************************************)
(* Further properties of MessageQueue                                      *)
(***************************************************************************)
\* C28: at every moment at most one activation of processQueue() is running
\* (waiting for a handler or for the retry delay).
C28_SingleDrainLoop == Cardinality(ActiveLoops) <= 1

Buffered(q) == {q[k] : k \in 1..Len(q)}

\* the step hands an item to its handler
Takes == handlerLog' # handlerLog
Taken == handlerLog'[Len(handlerLog')]

\* C29: every time the drain loop takes an item to handle, no buffered item
\* has a higher priority than the item taken.
C29_HighestPriorityFirst ==
  [][ Takes => \A y \in Buffered(queue') : msgs'[y].priority <= msgs'[Taken].priority ]_vars

\* an item waits for its retry: an attempt on it has failed, its budget is
\* not used up, it was never processed, and no handler runs for it
AwaitsRetry(x) ==
  /\ msgs[x].attempts >= 1
  /\ msgs[x].attempts < RetryAttempts
  /\ processedCount[x] = 0
  /\ ~InFlight(x)

\* C30: when the processing timeout ends an attempt on item X, the attempts
\* of X grow by one, and if the budget is not used up X is put back into the
\* buffer, the loop waits for the retry delay and no handler is called in
\* that step; an item that waits for its retry stays in the buffer until a
\* handler is called for it again, unless clear() discards it.
C30_TimeoutIsFailedAttempt ==
  [][ /\ (lastOp'.op = "handlerDone" /\ lastOp'.res = TimeoutError) =>
           LET x == lastOp'.id IN
           /\ msgs'[x].attempts = msgs[x].attempts + 1
           /\ msgs'[x].attempts < RetryAttempts =>
                /\ x \in Buffered(queue')
                /\ handlerLog' = handlerLog
      /\ \A x \in Created :
           (AwaitsRetry(x) /\ InQueue(x) /\ lastOp'.op # "clear") =>
              (InQueue(x)' \/ InFlight(x)')
    ]_vars

\* the activations of processQueue() that wait on a handler invocation
Running == {i \in LoopIds : loops[i].pc = "handler"}

\* C31: at every moment at most one handler invocation started by the queue
\* is still running.
C31_OneHandlerInFlight == Cardinality(Running) <= 1

\* the step adds an item to the buffer or discards the buffer
Feeds ==
  \/ lastOp'.op = "clear"
  \/ lastOp'.op = "enqueue" /\ lastOp'.res = "ok"

\* the queue has drained: the buffer is empty, no drain loop is active, and
\* every item that clear() did not discard was processed or used up its budget
Settled ==
  /\ queue = <<>>
  /\ ~processing
  /\ ActiveLoops = {}
  /\ \A x \in Created \ cleared :
       processedCount[x] >= 1 \/ msgs[x].attempts >= RetryAttempts

\* C32: if from some point on no enqueue and no clear() occurs (handlers
\* complete or run into the processing timeout), then eventually, and from
\* then on, the queue is empty, every item has left it by success or by
\* exhausting its retry budget, and processing is false.
C32_DrainTermination == <>[][~Feeds]_vars => <>[]Settled

\* the smallest enqueue timestamp among the buffered items
OldestBuffered ==
  IF queue = <<>> THEN Undefined
  ELSE CHOOSE t \in {Timestamp(x) : x \in Buffered(queue)} :
         \A x \in Buffered(queue) : t <= Timestamp(x)

\* C33: getStatus() reports the number of buffered items as size, the
\* smallest enqueue timestamp among them as oldestMessage (undefined when
\* the queue is empty), and processing is true exactly while a drain loop
\* is active.
C33_StatusAccurate ==
  /\ GetStatus.size = Len(queue)
  /\ GetStatus.oldestMessage = OldestBuffered
  /\ GetStatus.processing = (ActiveLoops # {})

\* C34: every establishment attempt that fails raises the retry counter of
\* its relay by one over the value the counter has when the attempt fails,
\* so that two overlapping attempts that both fail raise it by two.
C34_NoLostUpdates ==
  [][ (plast'.op = "settle" /\ plast'.res # "ok") =>
        LET e == plast'.relay IN retryAttempts'[e] = RetryOf(e) + 1
    ]_vars

\* the step ends the getPool call of activation t, whose SimplePool close()
\* has taken out of the map while the call was waiting for establishment
EndsTornDown(t) ==
  /\ tasks[t].who = "getPool"
  /\ tasks[t].pc \in {"done_ok", "done_err"}
  /\ tasks'[t].pc = "idle"
  /\ plast'.op = "getPoolDone"
  /\ pools[tasks[t].relay] # tasks[t].conn

\* C35: when close() ran while a getPool(e) call was waiting for the
\* establishment of e, the call does not return the connection that close()
\* has torn down, and, unless e was acquired again in between, once the call
\* has ended the pool holds no map entry, health flag or retry counter for e.
C35_CloseDuringEstablishment ==
  [][ \A t \in TaskIds :
        EndsTornDown(t) =>
          LET e == tasks[t].relay IN
          /\ plast'.res # "returned"
          /\ pools[e] = 0 =>
               /\ pools'[e] = 0
               /\ connectionStatus'[e] = "none"
               /\ retryAttempts'[e] = NoEntry
    ]_vars

\* the retry budget of relay e is used up
Saturated(e) == RetryOf(e) >= MaxRetries

\* the step is the end of an establishment attempt that failed
AttemptFails == plast'.op = "settle" /\ plast'.res # "ok"

\* C36: a relay in the map whose retry counter has reached maxRetries gets
\* out of that state without close(): if from some point on no establishment
\* attempt fails, an attempt is made for it and resets its counter.
C36_RecoveryFromSaturation ==
  \A e \in Relays :
    <>[][~AttemptFails]_vars =>
      []((Saturated(e) /\ pools[e] # 0) => <>(~Saturated(e) \/ everClosed))

\* a call of connectToRelay(e) made while the retry budget of e is used up
\* never calls ensureRelay
SaturationBlocksAttempts ==
  [][ \A e \in Relays :
        Saturated(e) => ensureCalls'[e] <= ensureCalls[e]
    ]_vars

\* C39: a call of disconnect() by the application neither starts nor
\* schedules a connection attempt, so that after it connected stays false
\* until the application calls connect() again.
C39_ExplicitDisconnectIsFinal ==
  [][ wlast'.op = "disconnect" =>
        /\ AutoActive(connects') \subseteq AutoActive(connects)
        /\ ~wConnected'
    ]_vars

(***************************************************************************)
(* Properties of NostrWalletConnect (src/src/nwc/index.ts)                 *)
(***************************************************************************)
\* C37: connected becomes true only when a connect() call resolves that was
\* still waiting (not rejected by its timeout) and during which disconnect()
\* was not called.
C37_ConnectedMeansHandshake ==
  [][ (~sConnected /\ sConnected') =>
        \E c \in SCallIds :
          /\ sCalls[c].kind = "connect"
          /\ sCalls[c].pc = "waiting"
          /\ ~sCalls[c].stale
          /\ sCalls'[c].pc = "resolved"
    ]_vars

\* the calls the step resolves
Resolves == {c \in SCallIds : sCalls[c].pc = "waiting" /\ sCalls'[c].pc = "resolved"}

\* C38: a success response made for the request of payInvoice call B
\* resolves B if B is still waiting, and resolves no other call.
C38_ResponsePerCall ==
  [][ (slast'.op = "paymentResponse" /\ slast'.res = "success") =>
        /\ Resolves \subseteq {slast'.call}
        /\ sCalls[slast'.call].pc = "waiting" => slast'.call \in Resolves
    ]_vars

(***************************************************************************)
(* Properties of NostrCommerce                                             *)
(***************************************************************************)
\* what subscription id holds: its handler entry, its relay subscriptions
Holds(id, handlerSet, subSet) ==
  id \in handlerSet \/ \E p \in subSet : p[1] = id

\* C40: after a subscribe() that failed because a relay has no connection,
\* no relay subscription and no handler entry of that call remains; after
\* the cancel function of a subscription has run, none of its relay
\* subscriptions and no handler entry of it remains.
C40_FailedSubscribeLeaksNothing ==
  [][ /\ (klast'.op = "subscribe" /\ klast'.res # "ok") =>
           ~Holds(klast'.id, eventHandlers', relaySubs')
      /\ klast'.op = "cancel" =>
           ~Holds(klast'.id, eventHandlers', relaySubs')
    ]_vars

====
